---- MODULE Spec2Model ----
(***************************************************************************)
(* ts-auth-proxy: the identity-resolving request pipeline and the listener *)
(* lifecycle of its two programs,                                          *)
(*   "server" : the access-check endpoint   (src/server/server.go)         *)
(*   "proxy"  : the reverse proxy           (src/proxy/proxy.go)           *)
(* The identity cache is the ristretto client behind cache.get/cache.set;  *)
(* it is modelled by the documented contract of Get and SetWithTTL:        *)
(*   - Get misses on an absent key and on an entry whose expiration has    *)
(*     passed (the expiration is compared with the clock at read time);    *)
(*   - SetWithTTL with ttl = 0 stores an entry that never expires, with    *)
(*     ttl < 0 it is a no-op; an existing key is updated in place; a new   *)
(*     key may be dropped or rejected by the admission policy, and when    *)
(*     it is admitted with no room left, other entries are evicted so the  *)
(*     total cost stays within MaxCost.                                    *)
(***************************************************************************)
EXTENDS Integers, Sequences, FiniteSets, TLC

VARIABLES
    variant,      \* which program runs: "server" or "proxy"
    cfgExpiry,    \* CacheExpiry (time units; 0 and negative values are accepted by the flag)
    cfgCIDR,      \* Server.TrustedCIDR, the comma-separated configuration string
    cfgCert,      \* Proxy.TLSCertFile ("" when the flag is not given)
    cfgKey,       \* Proxy.TLSKeyFile  ("" when the flag is not given)
    cache,        \* ristretto store: key -> [profile, exp, at, src]
    now,          \* the clock
    last,         \* the request handled last and what the handler did with it
    pc,           \* Run: "init", "serving", "returned", "panicked"; "killed" by a signal
    serve,        \* per listener, the state of its serve task
    watch,        \* per listener, the state of its gracefulShutdown task
    shut,         \* the http.Server objects on which Shutdown has been invoked
    ctxDone,      \* the errgroup context is cancelled
    gerr,         \* errgroup: the first error returned by a task ("nil" if none)
    runErr,       \* what Run returned ("running" until it returns)
    denied,       \* history: the peer denied by the directory whose next request is awaited
    inflight      \* per request slot, the handler suspended in its directory call

vars == <<variant, cfgExpiry, cfgCIDR, cfgCert, cfgKey, cache, now, last, pc, serve, watch,
          shut, ctxDone, gerr, runErr, denied, inflight>>

config    == <<variant, cfgExpiry, cfgCIDR, cfgCert, cfgKey>>
lifecycle == <<pc, serve, watch, shut, ctxDone, gerr, runErr>>

---------------------------------------------------------------------------
(* Bounds of the model *)

MaxTime   == 3      \* the clock runs 0..MaxTime
TTL       == 2      \* the positive CacheExpiry tried
CacheSize == 2      \* --cache-size (maxTokens)
MaxInflight == 2    \* requests handled concurrently

(* Program constants *)

StatusOK                == 200
StatusPermanentRedirect == 308
StatusNoContent         == 204     \* the success status of src/pkg/server/server.go
StatusUnauthorized      == 401
StatusForbidden         == 403
ItemCost                == 1     \* the cost argument of SetWithTTL
serverShutdownGracePeriod == 30
StatusSwitchingProtocols == 101

---------------------------------------------------------------------------
(* Profiles and headers *)

Unset == "<unset>"

\* type userProfile
userProfile(avatar, login, name) == [Avatar |-> avatar, Login |-> login, Name |-> name]

NoProfile == userProfile(Unset, Unset, Unset)     \* var profile *userProfile (nil)
NoHeaders == userProfile(Unset, Unset, Unset)     \* none of the three identity headers set

---------------------------------------------------------------------------
(* Addresses: netip.ParseAddrPort(net.JoinHostPort(host, port)) and          *)
(* AddrPort.String().  Several spellings of a host parse to one address;    *)
(* String() prints the canonical one.                                       *)

Invalid == "invalid"

\* values of the remote-host header: missing, not an address, and spellings of addresses
HeaderHosts == {"", "bad", "10.0.0.1", "fd7a::1", "fd7a:0::1", "100.64.0.5"}
\* values of the remote-port header: missing, two ports, not a port
HeaderPorts == {"", "1", "2", "x"}

\* netip.ParseAddr followed by Addr.String(): the canonical spelling, or Invalid
ParseAddr(h) ==
    CASE h = "10.0.0.1"                 -> "10.0.0.1"
      [] h \in {"fd7a::1", "fd7a:0::1"} -> "fd7a::1"
      [] h = "100.64.0.5"               -> "100.64.0.5"
      [] OTHER                          -> Invalid

\* the 16-bit decimal port of ParseAddrPort
ParsePort(p) == IF p \in {"1", "2"} THEN p ELSE Invalid

\* net.JoinHostPort: a host containing a colon is put in brackets
JoinHostPort(host, port) ==
    IF host \in {"fd7a::1", "fd7a:0::1"}
    THEN "[" \o host \o "]:" \o port
    ELSE host \o ":" \o port

\* netip.ParseAddrPort, tabulated over the strings the handler can join: s parses
\* iff it is "host:port" (or "[host]:port") of a host and a port that parse
ParseAddrPortTable ==
    [s \in {JoinHostPort(h, p) : h \in HeaderHosts, p \in HeaderPorts} |->
        LET ok(h, p) == s = JoinHostPort(h, p) /\ ParseAddr(h) # Invalid /\ ParsePort(p) # Invalid
        IN  IF \E h \in HeaderHosts, p \in HeaderPorts : ok(h, p)
            THEN LET hp == CHOOSE hp \in HeaderHosts \X HeaderPorts : ok(hp[1], hp[2])
                 IN  [ok |-> TRUE, addr |-> ParseAddr(hp[1]), port |-> ParsePort(hp[2])]
            ELSE [ok |-> FALSE, addr |-> Invalid, port |-> Invalid]]

ParseAddrPort(s) == ParseAddrPortTable[s]

\* netip.AddrPort.String()
AddrPortString(ap) == IF ap.ok THEN JoinHostPort(ap.addr, ap.port) ELSE "invalid AddrPort"

\* r.RemoteAddr of a connection accepted by the proxy's listener
RemoteAddrs == {"10.0.0.1:1", "10.0.0.1:2", "[fd7a::1]:2", "100.64.0.5:1"}

---------------------------------------------------------------------------
(* The identity directory: tsCli.WhoIs.  Each peer address has a fixed      *)
(* classification; any call may fail (up = FALSE).  Two peers share the     *)
(* host 10.0.0.1 (address translation) and two share fd7a::1.               *)

whoIsInfo(err, tagged, pic, login, name) ==
    [err |-> err, tagged |-> tagged,
     UserProfile |-> [ProfilePicURL |-> pic, LoginName |-> login, DisplayName |-> name]]

WhoIsError == whoIsInfo(TRUE, FALSE, "", "", "")
Human(u)   == whoIsInfo(FALSE, FALSE, u \o ".png", u, u)
Tagged     == whoIsInfo(FALSE, TRUE, "", "tagged-devices", "Tagged Devices")

Directory(addr) ==
    CASE addr = "10.0.0.1:1"     -> Human("ada")
      [] addr = "10.0.0.1:2"     -> Human("bob")
      [] addr = "[fd7a::1]:1"    -> Human("ada")
      [] addr = "[fd7a::1]:2"    -> Tagged
      [] addr = "100.64.0.5:1"   -> Human("bob")
      [] OTHER                   -> WhoIsError

\* tsCli.WhoIs(ctx, addr)
WhoIs(addr, up) == IF up THEN Directory(addr) ELSE WhoIsError

---------------------------------------------------------------------------
(* Trusted prefixes: strings.Split(p.TrustedCIDR, ","), netip.MustParsePrefix *)
(* and Prefix.Contains.                                                       *)

\* the values of --trusted-cidr tried ("" is the unset flag)
CIDRConfigs == {"", "192.168.0.0/16,100.64.0.0/10"}

\* strings.Split(s, ","): the empty string splits into one empty entry
Split(s) ==
    CASE s = "192.168.0.0/16,100.64.0.0/10" -> <<"192.168.0.0/16", "100.64.0.0/10">>
      [] OTHER                              -> <<s>>

\* netip.ParsePrefix succeeds
ValidPrefix(c) == c \in {"192.168.0.0/16", "100.64.0.0/10"}

\* netip.Prefix.Contains(addr), addr a canonical address; none of the peers
\* is inside 192.168.0.0/16
PrefixContains(c, addr) == c = "100.64.0.0/10" /\ addr = "100.64.0.5"

\* Run: the loop that builds trustedCIDRs; MustParsePrefix panics on a malformed entry
trustedCIDRsPanic(s) == \E i \in DOMAIN Split(s) : ~ValidPrefix(Split(s)[i])
trustedCIDRs(s)      == Split(s)

\* handler: for _, cidr := range trustedCIDRs { if cidr.Contains(remoteAddr.Addr()) ... }
isTrusted_FirstOnly(cidrs, addr) == Len(cidrs) > 0 /\ PrefixContains(cidrs[1], addr)
isTrusted(cidrs, addr) == \E i \in DOMAIN cidrs : PrefixContains(cidrs[i], addr)

---------------------------------------------------------------------------
(* The identity cache *)

\* newCache: MaxCost: maxTokens
MaxCost(maxTokens) == maxTokens

EmptyCache == [k \in {} |-> NoProfile]

\* the store's read-time test: the entry has an expiration (non-zero) and it has passed
Expired(e, t) == e.exp # 0 /\ t > e.exp

\* the keys Get would return at time t
Live(c, t) == {k \in DOMAIN c : ~Expired(c[k], t)}

\* cache.get: c.client.Get(addr); ok = FALSE is the "addr not found" error
get_AlwaysMiss(c, t, addr) == [ok |-> FALSE, profile |-> NoProfile]
get(c, t, addr) ==
    IF addr \in DOMAIN c /\ ~Expired(c[addr], t)
    THEN [ok |-> TRUE, profile |-> c[addr].profile]
    ELSE [ok |-> FALSE, profile |-> NoProfile]

\* the entry SetWithTTL(addr, profile, 1, expiry) builds at time t; at and src are
\* history fields: when it was stored and for which WhoIs argument
entry(t, profile, expiry, src) ==
    [profile |-> profile, exp |-> IF expiry = 0 THEN 0 ELSE t + expiry, at |-> t, src |-> src]

Put(c, addr, e)  == [k \in (DOMAIN c) \cup {addr} |-> IF k = addr THEN e ELSE c[k]]
Remove(c, addr)  == [k \in (DOMAIN c) \ {addr} |-> c[k]]
UsedCost(c)      == Cardinality(DOMAIN c) * ItemCost

\* cache.set: c.client.SetWithTTL(addr, profile, 1, expiry); the set of stores it may leave
set_NoEviction(c, t, addr, profile, expiry, src) ==
    IF expiry < 0 THEN {c} ELSE {c, Put(c, addr, entry(t, profile, expiry, src))}
set(c, t, addr, profile, expiry, src) ==
    LET e == entry(t, profile, expiry, src)
    IN  IF expiry < 0 THEN {c}                              \* negative ttl: no-op
        ELSE IF addr \in DOMAIN c THEN {Put(c, addr, e)}    \* update in place
        ELSE {c} \cup                                        \* dropped or rejected
             (IF UsedCost(c) + ItemCost <= MaxCost(CacheSize)
              THEN {Put(c, addr, e)}
              ELSE {Put(Remove(c, v), addr, e) : v \in DOMAIN c})
---------------------------------------------------------------------------
(* Listeners, http.Server objects and the errgroup tasks of Run *)

\* the values of --tls-cert and --tls-key tried
TLSFiles == {"", "tls.pem"}

\* Proxy.Run: if p.TLSCertFile != "" && p.TLSKeyFile != ""
tlsConfigured_Either(cert, key) == cert # "" \/ key # ""
tlsConfigured(cert, key) == cert # "" /\ key # ""

cfgTLS == tlsConfigured(cfgCert, cfgKey)

Listeners == {"http", "https"}

\* the http.Server whose accept loop serves listener l:
\*   server: svr.ListenAndServe();  proxy: svr.ServeTLS(ln, ...) on the TLS server,
\*   and http.Serve(ln, httpHandler), which serves on a Server of its own
ServedBy(l) ==
    CASE variant = "server" -> "svr"
      [] l = "https"        -> "tlsSvr"
      [] OTHER              -> "httpServe"

\* the http.Server the gracefulShutdown task of listener l is given
ShutdownTarget(l) == IF variant = "proxy" /\ l = "https" THEN "tlsSvr" ELSE "svr"

\* the handler served on listener l: mux, or redirectToHttps() on the plain
\* listener when the TLS certificate and key are both configured
HandlerOf(l) == IF variant = "proxy" /\ cfgTLS /\ l = "http" THEN "redirect" ELSE "mux"

\* listener l accepts new connections: its serve loop runs on a server not shut down
Accepting(l) == serve[l] = "running" /\ ServedBy(l) \notin shut

\* a task that was never started or has returned ("closed": a serve task that returned
\* the server-closed error)
TaskDone(st) == st \in {"none", "ok", "err", "closed"}

---------------------------------------------------------------------------
(* Request headers (net/http.Header) and what the reverse proxy sends on *)

\* the identity headers, and the hop-by-hop header that names further hop-by-hop headers
HeaderTailscaleUserAvatar == "Tailscale-User-Avatar"
HeaderTailscaleUserLogin  == "Tailscale-User-Login"
HeaderTailscaleUserName   == "Tailscale-User-Name"
HeaderConnection          == "Connection"

IdentityHeaders == {HeaderTailscaleUserAvatar, HeaderTailscaleUserLogin, HeaderTailscaleUserName}
HeaderNames     == IdentityHeaders \cup {HeaderConnection}

\* textproto.CanonicalMIMEHeaderKey: header names are case-insensitive on the wire
CanonicalMIMEHeaderKey(k) ==
    CASE k = "tailscale-user-login" -> HeaderTailscaleUserLogin
      [] k = "connection"           -> HeaderConnection
      [] k = "keep-alive"           -> "Keep-Alive"
      [] OTHER                      -> k

\* a Header maps a canonical name to the list of its values
EmptyHeader == [n \in HeaderNames |-> <<>>]

\* Header.Add, Header.Set, Header.Del (names outside HeaderNames are not tracked)
HeaderAdd(h, key, value) ==
    IF CanonicalMIMEHeaderKey(key) \in HeaderNames
    THEN [h EXCEPT ![CanonicalMIMEHeaderKey(key)] = Append(@, value)] ELSE h
HeaderSet(h, key, value) ==
    IF CanonicalMIMEHeaderKey(key) \in HeaderNames
    THEN [h EXCEPT ![CanonicalMIMEHeaderKey(key)] = <<value>>] ELSE h
HeaderDel(h, key) ==
    IF CanonicalMIMEHeaderKey(key) \in HeaderNames
    THEN [h EXCEPT ![CanonicalMIMEHeaderKey(key)] = <<>>] ELSE h

\* the header lines a client sends, as <<name, value>> pairs
ClientHeaders ==
    { <<>>,
      << <<"Tailscale-User-Login", "evil">> >>,
      << <<"tailscale-user-login", "evil">>, <<"Tailscale-User-Name", "evil">> >>,
      << <<"Connection", "keep-alive">> >>,
      << <<"connection", "tailscale-user-login">>, <<"Tailscale-User-Login", "evil">> >> }

\* net/http reading the request: r.Header holds every line under its canonical name
RECURSIVE ReadHeader(_)
ReadHeader(wire) ==
    IF wire = <<>> THEN EmptyHeader
    ELSE LET line == wire[Len(wire)]
         IN  HeaderAdd(ReadHeader(SubSeq(wire, 1, Len(wire) - 1)), line[1], line[2])

\* handler: h := r.Header; h.Set(avatar), h.Set(login), h.Set(name)
SetIdentity(h, profile) ==
    HeaderSet(HeaderSet(HeaderSet(h, HeaderTailscaleUserAvatar, profile.Avatar),
                        HeaderTailscaleUserLogin, profile.Login),
              HeaderTailscaleUserName, profile.Name)

\* httputil.ReverseProxy.ServeHTTP on a proxy built by NewSingleHostReverseProxy: after
\* the Director has run, the outgoing request loses every header named by a value of
\* Connection, and Connection itself
RECURSIVE DelAll(_, _)
DelAll(h, keys) ==
    IF keys = <<>> THEN h ELSE DelAll(HeaderDel(h, Head(keys)), Tail(keys))
removeHopByHopHeaders(h) == HeaderDel(DelAll(h, h[HeaderConnection]), HeaderConnection)

\* type wrappedResponseWriter: statusCode is what the access log prints; sent is the
\* status line that went to the client (0: none yet)
wrappedResponseWriter == [statusCode |-> StatusOK, sent |-> 0]

\* wrappedResponseWriter.WriteHeader
WriteHeader(ww, code) == [ww EXCEPT !.statusCode = code, !.sent = code]

\* wrappedResponseWriter.Hijack, as the reverse proxy uses it on an upgrade: it takes
\* the connection of the embedded writer and writes the response to it directly
HijackAndWrite(ww, code) == [ww EXCEPT !.sent = code]

\* ReverseProxy.ServeHTTP, the response side: a 101 answer to an upgrade request is
\* written to the hijacked connection, every other status through rw.WriteHeader
ServeHTTP(ww, upstream) ==
    IF upstream = StatusSwitchingProtocols THEN HijackAndWrite(ww, upstream)
    ELSE WriteHeader(ww, upstream)

---------------------------------------------------------------------------
(* The request handlers *)

\* the request handled last: its inputs (host and port headers, or the connection's
\* remote address; up: the directory answers; wire: the header lines of the client),
\* what the handler did (decision, status sent, identity headers set, directory calls,
\* cache get/put, forwarding, the headers of the forwarded request, the identity headers
\* set on the response of a forwarded request, the access-log lines written), and what
\* the cache held under the request's key when it was looked up (live, stored)
Response(kind, ln, host, port) ==
    [kind |-> kind, ln |-> ln, host |-> host, port |-> port, path |-> "", loc |-> "",
     raddr |-> "", key |-> "",
     up |-> TRUE, decision |-> "", status |-> StatusOK, hdr |-> NoHeaders,
     calls |-> 0, got |-> FALSE, put |-> FALSE, hit |-> FALSE, fwd |-> FALSE,
     full |-> FALSE, live |-> FALSE, stored |-> NoProfile, wasDenied |-> FALSE,
     wire |-> <<>>, req |-> EmptyHeader, resp |-> EmptyHeader, log |-> <<>>]

NoRequest == Response("none", "", "", "")

\* the observation of the cache at lookup time, recorded with the request
Lookup(r, key) ==
    [r EXCEPT !.key = key, !.got = TRUE,
              !.live = key \in Live(cache, now),
              !.stored = IF key \in Live(cache, now) THEN cache[key].profile ELSE NoProfile,
              !.wasDenied = (r.raddr = denied)]

\* handler: remoteHost == "" || remotePort == ""
headersMissing(remoteHost, remotePort) == remoteHost = "" \/ remotePort = ""

\* handler: the err != nil test after netip.ParseAddrPort
parseFailed_Ignored(remoteAddr) == FALSE
parseFailed(remoteAddr) == ~remoteAddr.ok

\* handler: the outcome of the WhoIs call: error -> 401, tagged node -> 403
denial_ServerError(info) ==
    IF info.err THEN "ServerError" ELSE IF info.tagged THEN "Forbidden" ELSE "Resolved"
denial(info) ==
    IF info.err THEN "Unauthorized" ELSE IF info.tagged THEN "Forbidden" ELSE "Resolved"

DenialStatus(d) ==
    CASE d = "Unauthorized" -> StatusUnauthorized
      [] d = "Forbidden"    -> StatusForbidden
      [] OTHER              -> 500

\* handler: profile = &userProfile{Avatar: ProfilePicURL, Login: LoginName, Name: DisplayName}
profileOf(info) ==
    userProfile(info.UserProfile.ProfilePicURL, info.UserProfile.LoginName,
                info.UserProfile.DisplayName)

\* history kept for the claims: the peer whose request the pipeline denied after
\* asking the directory (401 or 403), until that peer's next request
Track(r) ==
    denied' = IF r.calls = 1 /\ r.decision # "Resolved" THEN r.raddr
              ELSE IF r.raddr = denied THEN ""
              ELSE denied

\* src/server/server.go, the handler of mux "/"
ServerHandler(remoteHost, remotePort, up) ==
    /\ variant = "server"
    /\ Accepting("http")
    /\ LET remoteAddr == ParseAddrPort(JoinHostPort(remoteHost, remotePort))
           r0   == Response("server", "http", remoteHost, remotePort)
           r1   == [r0 EXCEPT !.raddr = AddrPortString(remoteAddr), !.up = up]
           r2   == Lookup(r1, remoteHost)
           g    == get(cache, now, remoteHost)
           info == WhoIs(AddrPortString(remoteAddr), up)
           r3   == [r2 EXCEPT !.calls = 1]
           reply(r) == last' = r /\ Track(r) /\ cache' = cache
       IN  IF headersMissing(remoteHost, remotePort)
           THEN reply([r0 EXCEPT !.decision = "NoAddress", !.status = StatusUnauthorized])
           ELSE IF parseFailed(remoteAddr)
           THEN reply([r0 EXCEPT !.decision = "BadAddress", !.status = StatusUnauthorized])
           ELSE IF isTrusted(trustedCIDRs(cfgCIDR), remoteAddr.addr)
           THEN reply([r1 EXCEPT !.decision = "Bypassed", !.status = StatusOK])
           ELSE IF g.ok
           THEN reply([r2 EXCEPT !.decision = "Resolved", !.hit = TRUE, !.hdr = g.profile])
           ELSE IF denial(info) # "Resolved"
           THEN reply([r3 EXCEPT !.decision = denial(info),
                                 !.status = DenialStatus(denial(info))])
           ELSE LET r == [r3 EXCEPT !.decision = "Resolved", !.put = TRUE,
                                    !.hdr = profileOf(info),
                                    !.full = (UsedCost(cache) + ItemCost > MaxCost(CacheSize))]
                IN  /\ cache' \in set(cache, now, remoteHost, profileOf(info), cfgExpiry,
                                      AddrPortString(remoteAddr))
                    /\ last' = r
                    /\ Track(r)
    /\ UNCHANGED <<config, inflight, lifecycle, now>>

\* the status the upstream answers a forwarded request with
UpstreamStatuses == {StatusOK, StatusForbidden}

\* handler: the deferred log.Printf, run when the handler returns
accessLog(r, profile, ww) ==
    [addr   |-> r.raddr,
     login  |-> IF profile = NoProfile THEN "unknown" ELSE profile.Login,
     status |-> ww.statusCode]

\* handler: ww.WriteHeader(401 or 403); return
ProxyDeny(r, d) ==
    LET ww == WriteHeader(wrappedResponseWriter, DenialStatus(d))
    IN  [r EXCEPT !.decision = d, !.status = ww.sent,
                  !.log = <<accessLog(r, NoProfile, ww)>>]

\* handler: the three h.Set on r.Header, then proxy.ServeHTTP(ww, r)
ProxyForward(r, profile, upstream) ==
    LET ww == ServeHTTP(wrappedResponseWriter, upstream)
    IN  [r EXCEPT !.decision = "Resolved", !.hdr = profile, !.fwd = TRUE,
                  !.req = removeHopByHopHeaders(SetIdentity(ReadHeader(r.wire), profile)),
                  !.status = ww.sent,
                  !.log = <<accessLog(r, profile, ww)>>]

\* src/proxy/proxy.go, the handler of mux "/"
ProxyHandler(ln, remoteAddr, up, upstream, wire) ==
    /\ variant = "proxy"
    /\ Accepting(ln) /\ HandlerOf(ln) = "mux"
    /\ LET r0   == Lookup([Response("proxy", ln, "", "") EXCEPT
                               !.up = up, !.raddr = remoteAddr, !.wire = wire],
                         remoteAddr)
           g    == get(cache, now, remoteAddr)
           info == WhoIs(remoteAddr, up)
           r3   == [r0 EXCEPT !.calls = 1]
           reply(r) == last' = r /\ Track(r) /\ cache' = cache
       IN  IF g.ok
           THEN reply(ProxyForward([r0 EXCEPT !.hit = TRUE], g.profile, upstream))
           ELSE IF denial(info) # "Resolved"
           THEN reply(ProxyDeny(r3, denial(info)))
           ELSE LET r == ProxyForward(
                             [r3 EXCEPT !.put = TRUE,
                                        !.full = (UsedCost(cache) + ItemCost
                                                      > MaxCost(CacheSize))],
                             profileOf(info), upstream)
                IN  /\ cache' \in set(cache, now, remoteAddr, profileOf(info), cfgExpiry,
                                      remoteAddr)
                    /\ last' = r
                    /\ Track(r)
    /\ UNCHANGED <<config, inflight, lifecycle, now>>

\* the Host header (r.Host) and the request target (r.URL: path and query)
RequestHosts == {"proxy.ts.net", "proxy.ts.net:80"}
RequestPaths == {"/", "/a?b=1"}

\* url.URL.String() of a URL with a scheme, a host and the request's path and query
URLString(scheme, host, path) == scheme \o "://" \o host \o path

\* src/proxy/proxy.go, redirectToHttps: the plain listener's handler under TLS;
\* http.Redirect sets the Location header and writes the status
RedirectHandler(remoteAddr, host, path) ==
    /\ variant = "proxy"
    /\ Accepting("http") /\ HandlerOf("http") = "redirect"
    /\ last' = [Response("redirect", "http", host, "") EXCEPT
                    !.raddr = remoteAddr, !.path = path,
                    !.decision = "Redirected",
                    !.loc = URLString("https", host, path),
                    !.status = StatusPermanentRedirect]
    /\ UNCHANGED <<config, inflight, lifecycle, now, cache, denied>>

---------------------------------------------------------------------------
(* Concurrent requests.  net/http runs the handler of every connection in a   *)
(* goroutine of its own; the handlers share the cache and nothing else, and   *)
(* take no lock.  A handler is suspended while tsCli.WhoIs is outstanding, so *)
(* it is split there: HandlerBegin runs it up to the call (or to its end on a *)
(* trusted peer or a cache hit), HandlerResume from the answer to its end.    *)

Slots  == 1..MaxInflight
NoSlot == [pc |-> "idle", r |-> NoRequest]

\* the key of cache.get and cache.set: remoteHost in the server (the host header, here
\* in its canonical spelling), r.RemoteAddr in the proxy
CacheKey(remoteAddr) ==
    IF variant = "server" THEN ParseAddrPort(remoteAddr).addr ELSE remoteAddr

HandlerBegin(i, ln, remoteAddr) ==
    /\ inflight[i].pc = "idle"
    /\ Accepting(ln) /\ HandlerOf(ln) = "mux"
    /\ LET ap == ParseAddrPort(remoteAddr)
           r0 == [Response(variant, ln, IF variant = "server" THEN ap.addr ELSE "",
                           IF variant = "server" THEN ap.port ELSE "")
                     EXCEPT !.raddr = remoteAddr]
           r1 == Lookup(r0, CacheKey(remoteAddr))
           g  == get(cache, now, CacheKey(remoteAddr))
       IN  IF variant = "server" /\ isTrusted(trustedCIDRs(cfgCIDR), ap.addr)
           THEN /\ last' = [r0 EXCEPT !.decision = "Bypassed", !.status = StatusOK]
                /\ inflight' = inflight
           ELSE IF g.ok
           THEN /\ last' = IF variant = "proxy"
                            THEN ProxyForward([r1 EXCEPT !.hit = TRUE], g.profile, StatusOK)
                            ELSE [r1 EXCEPT !.decision = "Resolved", !.hit = TRUE,
                                            !.hdr = g.profile]
                /\ inflight' = inflight
           ELSE /\ inflight' = [inflight EXCEPT ![i] = [pc |-> "whois",
                                                       r  |-> [r1 EXCEPT !.calls = 1]]]
                /\ last' = last
    /\ UNCHANGED <<config, lifecycle, now, cache, denied>>

HandlerResume(i, up) ==
    /\ inflight[i].pc = "whois"
    /\ LET r    == [inflight[i].r EXCEPT !.up = up]
           info == WhoIs(r.raddr, up)
       IN  IF denial(info) # "Resolved"
           THEN /\ last' = IF variant = "proxy" THEN ProxyDeny(r, denial(info))
                            ELSE [r EXCEPT !.decision = denial(info),
                                           !.status = DenialStatus(denial(info))]
                /\ cache' = cache
           ELSE /\ cache' \in set(cache, now, r.key, profileOf(info), cfgExpiry, r.raddr)
                /\ last' = IF variant = "proxy"
                            THEN ProxyForward([r EXCEPT !.put = TRUE], profileOf(info),
                                              StatusOK)
                            ELSE [r EXCEPT !.decision = "Resolved", !.put = TRUE,
                                           !.hdr = profileOf(info)]
    /\ inflight' = [inflight EXCEPT ![i] = NoSlot]
    /\ UNCHANGED <<config, lifecycle, now, denied>>

---------------------------------------------------------------------------
(* Time and the cache's background expiry *)

\* the clock is read only by the cache, on behalf of a request: it is advanced
\* while some listener still accepts requests
Tick ==
    /\ now < MaxTime
    /\ \E l \in Listeners : Accepting(l)
    /\ now' = now + 1
    /\ UNCHANGED <<config, inflight, lifecycle, cache, last, denied>>

\* ristretto's cleanup of an entry whose expiration has passed
CacheCleanup(k) ==
    /\ k \in DOMAIN cache /\ Expired(cache[k], now)
    /\ \E l \in Listeners : Accepting(l)
    /\ cache' = Remove(cache, k)
    /\ UNCHANGED <<config, inflight, lifecycle, now, last, denied>>
---------------------------------------------------------------------------
(* Run: startup, the errgroup tasks and g.Wait() *)

\* the fatal startup conditions, in the order Run meets them
StartupFailures == {"none", "mkdir", "stat", "perm", "client", "cache", "listen443", "listen80"}

RunError(f) ==
    CASE f = "mkdir"     -> "failed to create state directory"
      [] f = "stat"      -> "failed to stat state directory"
      [] f = "perm"      -> "state directory is not writable"
      [] f = "client"    -> "failed to create tailscale client"
      [] f = "cache"     -> "failed to create cache"
      [] f = "listen443" -> "failed to listen on port 443"
      [] f = "listen80"  -> "failed to listen on port 80"
      [] OTHER           -> "nil"

NoTasks    == [l \in Listeners |-> "none"]
Started(L, st) == [l \in Listeners |-> IF l \in L THEN st ELSE "none"]

\* Run up to g.Wait(): f is the startup condition that fails ("none": all succeed)
Run(f) ==
    /\ pc = "init"
    /\ LET return(err, L) ==
               /\ pc' = "returned" /\ runErr' = err
               /\ serve' = Started(L, "running") /\ watch' = Started(L, "waiting")
           start(L) ==
               /\ pc' = "serving" /\ runErr' = runErr
               /\ serve' = Started(L, "running") /\ watch' = Started(L, "waiting")
       IN  IF variant = "server" /\ trustedCIDRsPanic(cfgCIDR)
           THEN /\ f = "none"
                /\ pc' = "panicked"
                /\ UNCHANGED <<serve, watch, runErr>>
           ELSE IF f \in {"mkdir", "stat", "perm", "client", "cache"}
           THEN return(RunError(f), {})
           ELSE IF variant = "server"
           THEN f = "none" /\ start({"http"})
           ELSE IF f = "listen443"
           THEN cfgTLS /\ return(RunError(f), {})
           ELSE IF f = "listen80"
           THEN return(RunError(f), IF cfgTLS THEN {"https"} ELSE {})
           ELSE start(IF cfgTLS THEN {"http", "https"} ELSE {"http"})
    /\ UNCHANGED <<config, inflight, cache, now, last, shut, ctxDone, gerr, denied>>

\* errgroup: a task returning a non-nil error records the first one and cancels ctx
TaskError(msg) ==
    /\ gerr' = IF gerr = "nil" THEN msg ELSE gerr
    /\ ctxDone' = TRUE

ServeErrorOf(l) == IF l = "https" THEN "failed to serve TLS" ELSE "failed to serve HTTP"
ShutdownErrorOf(l) ==
    IF l = "https" THEN "failed to shutdown HTTPS server" ELSE "failed to shutdown HTTP server"

\* a serve task ends on a bind, certificate or accept failure
ServeLoopFails(l) ==
    /\ serve[l] = "running" /\ ServedBy(l) \notin shut
    /\ serve' = [serve EXCEPT ![l] = "err"]
    /\ TaskError(ServeErrorOf(l))
    /\ UNCHANGED <<config, inflight, cache, now, last, pc, watch, shut, runErr, denied>>

\* a serve task ends with ErrServerClosed after Shutdown of the server it runs on;
\* the task wraps and returns it like any other error
ServeLoopClosed_Nil(l) ==
    /\ serve[l] = "running" /\ ServedBy(l) \in shut
    /\ serve' = [serve EXCEPT ![l] = "ok"]
    /\ UNCHANGED <<config, inflight, cache, now, last, pc, watch, shut, runErr, denied,
                   gerr, ctxDone>>
ServeLoopClosed(l) ==
    /\ serve[l] = "running" /\ ServedBy(l) \in shut
    /\ serve' = [serve EXCEPT ![l] = "closed"]
    /\ TaskError(ServeErrorOf(l))
    /\ UNCHANGED <<config, inflight, cache, now, last, pc, watch, shut, runErr, denied>>

\* gracefulShutdown(ctx, svr): <-ctx.Done(), then svr.Shutdown with the grace period;
\* Shutdown fails when connections of that server outlive the grace period
gracefulShutdown(l, timedOut) ==
    /\ watch[l] = "waiting" /\ ctxDone
    /\ timedOut => \E k \in Listeners : serve[k] # "none" /\ ServedBy(k) = ShutdownTarget(l)
    /\ shut' = shut \cup {ShutdownTarget(l)}
    /\ watch' = [watch EXCEPT ![l] = IF timedOut THEN "err" ELSE "ok"]
    /\ IF timedOut THEN TaskError(ShutdownErrorOf(l)) ELSE UNCHANGED <<gerr, ctxDone>>
    /\ UNCHANGED <<config, inflight, cache, now, last, pc, serve, runErr, denied>>

\* g.Wait(): returns the first error once every task has returned
Wait ==
    /\ pc = "serving"
    /\ \A l \in Listeners : TaskDone(serve[l]) /\ TaskDone(watch[l])
    /\ pc' = "returned" /\ runErr' = gerr
    /\ ctxDone' = TRUE
    /\ UNCHANGED <<config, inflight, cache, now, last, serve, watch, shut, gerr, denied>>

\* main registers no signal handler and Run derives ctx from context.Background():
\* a shutdown signal (SIGINT, SIGTERM) has its default effect, the process is
\* terminated at once with its tasks, and ctx is not cancelled by it
Signal ==
    /\ pc = "serving"
    /\ pc' = "killed"
    /\ serve' = [l \in Listeners |-> IF serve[l] = "running" THEN "killed" ELSE serve[l]]
    /\ watch' = [l \in Listeners |-> IF watch[l] = "waiting" THEN "killed" ELSE watch[l]]
    /\ UNCHANGED <<config, inflight, cache, now, last, shut, ctxDone, gerr, runErr, denied>>

---------------------------------------------------------------------------

Init ==
    /\ variant \in {"server", "proxy"}
    /\ cfgExpiry \in {TTL, 0, -1}
    /\ cfgCIDR \in (IF variant = "server" THEN CIDRConfigs ELSE {""})
    /\ cfgCert \in (IF variant = "proxy" THEN TLSFiles ELSE {""})
    /\ cfgKey \in (IF variant = "proxy" THEN TLSFiles ELSE {""})
    /\ cache = EmptyCache
    /\ now = 0
    /\ last = NoRequest
    /\ pc = "init"
    /\ serve = NoTasks /\ watch = NoTasks
    /\ shut = {}
    /\ ctxDone = FALSE
    /\ gerr = "nil"
    /\ runErr = "running"
    /\ denied = ""
    /\ inflight = [i \in Slots |-> NoSlot]

RequestHandled ==
    \/ \E h \in HeaderHosts, p \in HeaderPorts, up \in BOOLEAN : ServerHandler(h, p, up)
    \/ \E l \in Listeners, a \in RemoteAddrs, up \in BOOLEAN, u \in UpstreamStatuses :
           ProxyHandler(l, a, up, u, <<>>)

\* the request pipeline while the listeners serve: startup, requests, time
Next ==
    \/ \E f \in StartupFailures : Run(f)
    \/ \E h \in HeaderHosts, p \in HeaderPorts, up \in BOOLEAN : ServerHandler(h, p, up)
    \/ \E l \in Listeners, a \in RemoteAddrs, up \in BOOLEAN, u \in UpstreamStatuses :
           ProxyHandler(l, a, up, u, <<>>)
    \/ \E a \in RemoteAddrs, h \in RequestHosts, p \in RequestPaths : RedirectHandler(a, h, p)
    \/ Tick
    \/ \E k \in DOMAIN cache : CacheCleanup(k)

Spec == Init /\ [][Next]_vars

\* the lifecycle of Run: startup, the errgroup tasks, shutdown and g.Wait(), with
\* the requests of one peer served whenever a listener accepts
NextLifecycle ==
    \/ \E f \in StartupFailures : Run(f)
    \/ \E l \in Listeners : ServeLoopFails(l)
    \/ \E l \in Listeners : ServeLoopClosed(l)
    \/ \E l \in Listeners, timedOut \in BOOLEAN : gracefulShutdown(l, timedOut)
    \/ Wait
    \/ Signal
    \/ \E up \in BOOLEAN : ServerHandler("10.0.0.1", "1", up)
    \/ \E l \in Listeners, up \in BOOLEAN : ProxyHandler(l, "10.0.0.1:1", up, StatusOK, <<>>)
    \/ \E h \in RequestHosts : RedirectHandler("10.0.0.1:1", h, "/")

SpecLifecycle == Init /\ [][NextLifecycle]_vars

\* the request pipeline with up to MaxInflight handlers running at once, in a burst
\* of requests during which the clock does not advance
NextConcurrent ==
    \/ \E f \in StartupFailures : Run(f)
    \/ \E i \in Slots, l \in Listeners, a \in RemoteAddrs : HandlerBegin(i, l, a)
    \/ \E i \in Slots, up \in BOOLEAN : HandlerResume(i, up)

SpecConcurrent == Init /\ [][NextConcurrent]_vars

\* the proxy's forwarding: requests with client-supplied header lines, answered by the
\* upstream with an ordinary status or with 101 to an upgrade
NextForwarding ==
    \/ \E f \in StartupFailures : Run(f)
    \/ \E l \in Listeners, a \in {"10.0.0.1:1", "[fd7a::1]:2"}, up \in BOOLEAN,
          u \in UpstreamStatuses \cup {StatusSwitchingProtocols}, w \in ClientHeaders :
           ProxyHandler(l, a, up, u, w)

SpecForwarding == Init /\ [][NextForwarding]_vars

\* scheduling: a goroutine that can run does run.  g.Wait() returns once every task
\* has returned; Serve returns ErrServerClosed once Shutdown was invoked on its server;
\* a watcher whose ctx is done calls Shutdown, which returns within the grace period.
\* Nothing obliges a serve loop to fail, a request to arrive or a signal to be sent.
LifecycleFairness ==
    /\ WF_vars(Wait)
    /\ \A l \in Listeners :
          /\ WF_vars(ServeLoopClosed(l))
          /\ WF_vars(\E timedOut \in BOOLEAN : gracefulShutdown(l, timedOut))

SpecLifecycleFair == Init /\ [][NextLifecycle]_vars /\ LifecycleFairness
---------------------------------------------------------------------------
(* Properties of the request pipeline (checked under Spec) *)

\* the directory classifies the peer as a human (untagged) user
IsHuman(addr) == ~Directory(addr).err /\ ~Directory(addr).tagged

\* the declared address parses and lies inside one of the configured prefixes
TrustedPeer(host, port) ==
    /\ ParseAddr(host) # Invalid /\ ParsePort(port) # Invalid
    /\ \E i \in DOMAIN Split(cfgCIDR) : PrefixContains(Split(cfgCIDR)[i], ParseAddr(host))

\* C1, as stated: once a request for a peer has freshly resolved a human profile
\* (one directory call), a later request for the same address within the TTL -- here
\* the very next request, with no time passed -- makes zero directory calls and gets
\* the same identity headers.
C1_CacheEffectiveness ==
    [][(/\ cfgExpiry > 0
        /\ last.decision = "Resolved" /\ last.calls = 1
        /\ last'.raddr = last.raddr
        /\ RequestHandled)
       => (last'.calls = 0 /\ last'.hdr = last.hdr)]_vars

\* C1, amended: a request that finds a live entry under its cache key makes zero
\* directory calls and gets exactly the stored identity, whether or not the directory
\* is reachable (a hit is preferred over a fresh resolution); a request that finds none
\* makes exactly one directory call, and for a human peer of a reachable directory it
\* gets that peer's profile and stores it; every stored identity is the directory's
\* profile of the address it was resolved for.
C1_CacheHitPreferred ==
    /\ last.got =>
         IF last.live
         THEN /\ last.calls = 0 /\ last.hit /\ ~last.put
              /\ last.decision = "Resolved" /\ last.hdr = last.stored
         ELSE /\ last.calls = 1 /\ ~last.hit
              /\ (last.up /\ IsHuman(last.raddr)) =>
                     /\ last.decision = "Resolved" /\ last.put
                     /\ last.hdr = profileOf(Directory(last.raddr))
    /\ \A k \in DOMAIN cache :
         IsHuman(cache[k].src) /\ cache[k].profile = profileOf(Directory(cache[k].src))

\* C1 witness: a request answered from the cache while the directory is unreachable
C1_HitWhileDirectoryDown ==
    last.got /\ last.live /\ ~last.up /\ last.calls = 0 /\ last.hdr # NoHeaders

\* C2, as stated: a request of a peer the (reachable) directory classifies as tagged
\* is answered 403 Forbidden and gets no identity headers, whatever the cache holds.
C2_TaggedAlwaysForbidden ==
    (last.got /\ last.up /\ Directory(last.raddr).tagged)
        => (last.status = StatusForbidden /\ last.hdr = NoHeaders)

\* C3: in the access-check handler a request whose declared address lies inside a
\* trusted prefix is allowed (200), with zero directory calls, no cache read or write
\* and no identity header, whether or not the directory is reachable.
C3_TrustBypass ==
    (last.kind = "server" /\ TrustedPeer(last.host, last.port))
        => /\ last.decision = "Bypassed" /\ last.status = StatusOK
           /\ last.calls = 0 /\ ~last.got /\ ~last.put
           /\ last.hdr = NoHeaders

\* C3 witness: a trusted peer let through while the directory is unreachable
C3_BypassedWhileDirectoryDown ==
    last.kind = "server" /\ TrustedPeer(last.host, last.port) /\ ~last.up
        /\ last.status = StatusOK

\* C4, as stated: an identity is never served from the cache past its TTL: a request
\* answered from the cache finds an entry stored at most CacheExpiry ago.
C4_NeverServedPastTTL ==
    [][(last'.hit /\ RequestHandled) => now <= cache[last'.key].at + cfgExpiry]_vars

\* C5, as stated: a request answered from the cache receives the identity the
\* directory assigns to the requesting peer address itself.
C5_NoFalseHit ==
    last.hit => last.hdr = profileOf(Directory(last.raddr))

C7_ResolutionFailureDenied ==
    /\ (last.calls = 1 /\ WhoIs(last.raddr, last.up).err)
           => /\ last.status = StatusUnauthorized
              /\ last.hdr = NoHeaders /\ ~last.fwd /\ ~last.put
    /\ (last.kind \in {"server", "proxy"} /\ last.decision \notin {"Resolved", "Bypassed"})
           => /\ last.status \in {StatusUnauthorized, StatusForbidden}
              /\ last.hdr = NoHeaders /\ ~last.fwd
    /\ (last.calls = 1 /\ last.up /\ Directory(last.raddr).tagged)
           => last.status = StatusForbidden /\ ~last.fwd

\* C7 witness: the proxy answers 401 itself when the directory is unreachable
C7_ProxyDirectoryDown ==
    last.kind = "proxy" /\ last.calls = 1 /\ ~last.up
        /\ last.status = StatusUnauthorized /\ ~last.fwd

\* C8, as stated: the next request of a peer that was denied after a directory call
\* makes a directory call again.
C8_DeniedPeerResolvedAgain ==
    last.wasDenied => last.calls = 1

\* C9: the number of stored entries never exceeds the configured maximum.
C9_CapacityBound ==
    Cardinality(DOMAIN cache) <= CacheSize

\* C9 witness: a set on a new key with the cache at capacity, admitted by an eviction
C9_SetAtCapacity ==
    /\ last.put /\ last.full
    /\ last.key \in DOMAIN cache
    /\ Cardinality(DOMAIN cache) = CacheSize

---------------------------------------------------------------------------
(* Properties of the lifecycle (checked under SpecLifecycle) *)

\* C10, as stated: once the shutdown watcher of a listener has invoked Shutdown, that
\* listener accepts no new connection.
C10_ShutdownStopsAccepting ==
    \A l \in Listeners : watch[l] \in {"ok", "err"} => ~Accepting(l)

\* C11, as stated: once the shared cancellation has fired, Run eventually returns (or
\* the process has ended) and no serve loop is left running.
C11_RunReturnsAfterCancellation ==
    ctxDone ~> (/\ pc \in {"returned", "killed"}
                /\ \A l \in Listeners : serve[l] # "running")

\* C12, as stated: Run returns only after all of its tasks have finished; it reports
\* success only if no serve loop and no shutdown watcher returned an error, and
\* otherwise it returns an error.
C12_RunReportsAllTasks ==
    pc = "returned" =>
        /\ \A l \in Listeners : TaskDone(serve[l]) /\ TaskDone(watch[l])
        /\ runErr = "nil" => \A l \in Listeners : serve[l] # "err" /\ watch[l] # "err"
        /\ runErr # "running"

\* C13, as stated: Shutdown is invoked on no server before the shared cancellation has
\* fired, and once the watcher of a listener has run, Shutdown has been invoked on the
\* server whose accept loop serves that listener.
C13_ShutdownFannedOut ==
    /\ shut # {} => ctxDone
    /\ \A l \in Listeners : watch[l] \in {"ok", "err"} => ServedBy(l) \in shut

\* C14, as stated: a shutdown signal received while Serving fires the shared
\* cancellation, and Run goes on to drain (its watchers are still there to run).
C14_SignalStartsDrain ==
    [][Signal => (ctxDone' /\ pc' = "serving"
                  /\ \A l \in Listeners : watch[l] = "waiting" => watch'[l] = "waiting")]_vars

\* C18, as stated: when Run returns because of a fatal startup condition, no serve-loop
\* or shutdown-watcher task has been started.
C18_NoPartialStart ==
    [][(pc = "init" /\ pc' = "returned")
       => \A l \in Listeners : serve'[l] = "none" /\ watch'[l] = "none"]_vars

\* C19, as stated: with a malformed entry in the trusted-CIDR configuration (the empty
\* string included) Run returns an error value, and no task is started.
C19_MalformedCIDRReturnsError ==
    (variant = "server" /\ trustedCIDRsPanic(cfgCIDR) /\ pc # "init")
        => /\ pc = "returned" /\ runErr \notin {"nil", "running"}
           /\ \A l \in Listeners : serve[l] = "none" /\ watch[l] = "none"

---------------------------------------------------------------------------
(* Further properties of the request pipeline (checked under Spec) *)

\* C15, as stated: in the access-check handler every allowed request (Resolved or
\* Bypassed) is answered 204 No Content and is not forwarded, and a Resolved one carries
\* the identity headers.
C15_AllowedIsNoContent ==
    (last.kind = "server" /\ last.decision \in {"Resolved", "Bypassed"})
        => /\ last.status = StatusNoContent
           /\ ~last.fwd
           /\ last.decision = "Resolved" => last.hdr # NoHeaders

\* C16, as stated: in the proxy too, a request of a peer inside a trusted prefix (of any
\* trusted-CIDR configuration) is forwarded with zero directory calls, no cache access
\* and no identity headers.
C16_ProxyTrustBypass ==
    (/\ last.kind = "proxy"
     /\ \E c \in CIDRConfigs : isTrusted(trustedCIDRs(c), ParseAddrPort(last.raddr).addr))
        => /\ last.fwd
           /\ last.calls = 0 /\ ~last.got /\ ~last.put
           /\ last.hdr = NoHeaders

\* C17: with both a TLS certificate and a key configured the proxy runs a second (TLS)
\* listener that serves the pipeline, and the plain listener answers every request with
\* a permanent redirect to https://<same host><same path and query>, without directory
\* call, cache access, identity headers or forwarding; with not both configured only
\* the plain listener exists, and it serves the pipeline.
C17_TLSRedirect ==
    LET both == cfgCert # "" /\ cfgKey # ""
    IN  /\ last.kind = "redirect" =>
              /\ both /\ last.ln = "http"
              /\ last.status = StatusPermanentRedirect
              /\ last.loc = "https://" \o last.host \o last.path
              /\ last.calls = 0 /\ ~last.got /\ ~last.put /\ ~last.fwd
              /\ last.hdr = NoHeaders
        /\ (both /\ last.ln = "http") => last.kind = "redirect"
        /\ last.ln = "https" => (both /\ last.kind = "proxy")
        /\ (variant = "proxy" /\ ~both /\ last.kind # "none")
              => (last.ln = "http" /\ last.kind = "proxy")
        /\ (variant = "proxy" /\ pc = "serving")
              => /\ serve["http"] # "none" /\ watch["http"] # "none"
                 /\ serve["https"] # "none" <=> both
                 /\ watch["https"] # "none" <=> both

\* C17 witness: a request with a query, to a host with a port, redirected by the plain
\* listener while the TLS listener serves
C17_RedirectedWithQuery ==
    /\ last.kind = "redirect" /\ last.host = "proxy.ts.net:80" /\ last.path = "/a?b=1"
    /\ last.loc = "https://proxy.ts.net:80/a?b=1"
    /\ Accepting("https")

---------------------------------------------------------------------------
(* Properties of concurrent requests (checked under SpecConcurrent) *)

\* C20, as stated: at no time are two directory calls outstanding for the same cache
\* key (concurrent requests that miss on one key do not each issue their own lookup).
C20_SingleLookupPerKey ==
    \A i, j \in Slots :
        (inflight[i].pc = "whois" /\ inflight[j].pc = "whois"
            /\ inflight[i].r.key = inflight[j].r.key) => i = j

\* C20, amended: in any interleaving a single request issues at most one directory
\* call, and it issues it exactly when its own cache lookup missed; a request
\* suspended in its directory call is one whose lookup missed.
C20_OneLookupPerRequest ==
    /\ last.calls \in {0, 1}
    /\ last.got => (last.calls = 1 <=> ~last.live)
    /\ ~last.got => last.calls = 0
    /\ \A i \in Slots :
          inflight[i].pc = "whois" =>
              /\ inflight[i].r.got /\ ~inflight[i].r.live
              /\ inflight[i].r.calls = 1

\* C20 witness: two requests have missed on one key and each has its own directory
\* call outstanding, the key still being absent from the cache
C20_TwoLookupsOutstanding ==
    \E i, j \in Slots :
        /\ i # j
        /\ inflight[i].pc = "whois" /\ inflight[j].pc = "whois"
        /\ inflight[i].r.key = inflight[j].r.key
        /\ inflight[i].r.key \notin DOMAIN cache

---------------------------------------------------------------------------
(* Further properties of the lifecycle (checked under SpecLifecycle) *)

\* C23: no serve task ever returns without an error, and whenever Run has returned it
\* has returned a non-nil error, also when every shutdown watcher completed cleanly.
C23_RunNeverReportsSuccess ==
    /\ \A l \in Listeners : serve[l] # "ok"
    /\ pc = "returned" => runErr \notin {"nil", "running"}
    /\ (pc = "serving" /\ \A l \in Listeners : TaskDone(serve[l]) /\ TaskDone(watch[l]))
           => gerr # "nil"

\* C23 witness: Run has returned from g.Wait() after its serve loops ended, one of them
\* with the server-closed result of a graceful Shutdown, and all watchers drained cleanly
C23_ErrorAfterCleanDrain ==
    /\ pc = "returned" /\ runErr = gerr /\ runErr = "failed to serve HTTP"
    /\ serve["https"] = "closed"
    /\ \A l \in Listeners : watch[l] = "ok"

---------------------------------------------------------------------------
(* Properties of the proxy's forwarding (checked under SpecForwarding) *)

\* C21: every request handled by the proxy's pipeline has exactly one access-log line,
\* whose login is the resolved identity's login ("unknown" when the request got no
\* identity) and whose status is the status code that was sent to the client.
C21_AccessLogMatchesResponse ==
    last.kind = "proxy" =>
        /\ Len(last.log) = 1
        /\ last.log[1].login = (IF last.decision = "Resolved" THEN last.hdr.Login
                                ELSE "unknown")
        /\ last.log[1].status = last.status

\* C22: every request the proxy forwards carries each identity header with exactly the
\* value of the profile resolved for the peer, whatever header lines the client sent,
\* and the handler sets no identity header on the response.
C22_ForwardedIdentityIsResolved ==
    (last.kind = "proxy" /\ last.fwd) =>
        /\ last.req[HeaderTailscaleUserAvatar] = <<last.hdr.Avatar>>
        /\ last.req[HeaderTailscaleUserLogin]  = <<last.hdr.Login>>
        /\ last.req[HeaderTailscaleUserName]   = <<last.hdr.Name>>
        /\ last.resp = EmptyHeader

====
